---- MODULE Spec2Model ----
(***************************************************************************)
(* Model of the image-with-grid programs:                                  *)
(*   add_grid_calibrated.py  (batch, scale from an ArUco marker)           *)
(*   add_grid.py             (batch, scale from DPI metadata)              *)
(*   generate_aruco_marker.py (marker synthesis CLI)                       *)
(*   calibration.py          (detect_aruco_marker, calibrated_cm_to_pixels)*)
(*                                                                         *)
(* Real numbers are exact rationals [n |-> numerator, d |-> denominator]   *)
(* with d >= 0; d = 0 stands for the IEEE values a division by zero gives  *)
(* (n > 0: +inf, n < 0: -inf, n = 0: nan).  Square roots are taken at a    *)
(* resolution of 1/SqrtScale pixel.  Floating-point rounding of sums and   *)
(* products is not modelled.                                               *)
(***************************************************************************)
EXTENDS Integers, Sequences, FiniteSets, TLC

VARIABLES
    prog,            \* which program runs ("calibrated", "grid", "marker")
                     \* or which function is exercised ("scale", "annotate")
    args,            \* parsed command-line arguments
    images_dir,      \* the directory 'images' as main() finds it
    summary,         \* the counts the final summary prints
    annot,           \* current image: corner annotations drawn
    pc,              \* position in the program
    image_files,     \* number of files main() discovered (len(image_files))
    idx,             \* 1-based position of the for loop over image_files
    success_count,   \* add_grid_calibrated.main: success_count
    skipped_count,   \* add_grid_calibrated.main: skipped_count
    exit_code,       \* process exit status, -1 while running
    written,         \* files written so far: records [kind, i]
    attempts,        \* per image: how often processing of it was started
    copied,          \* current image: shutil.copy2 succeeded
    pixels_per_cm,   \* current image: value returned by detect_aruco_marker
    detected,        \* current image: candidates reported by detectMarkers
    grid_spacing_px, \* current image: pixel step
    img,             \* current image: opened drawing surface (size, dpi)
    vlines,          \* current image: vertical lines drawn, <<x, label>> pairs
    hlines,          \* current image: horizontal lines drawn
    result,          \* outcome of the current (or last finished) image
    marker_img       \* generate_aruco_marker's return value

vars == <<prog, args, images_dir, summary, annot, pc, image_files, idx,
          success_count, skipped_count, exit_code, written, attempts, copied,
          pixels_per_cm, detected, grid_spacing_px, img, vlines, hlines, result, marker_img>>

-----------------------------------------------------------------------------
(* Bounds of the model *)

MaxImages == 2

MaxCandidates == 2

SqrtScale == 16

MaxCoord == 2

(* Program constants *)

DefaultDpi == 72

DictSize == 250

-----------------------------------------------------------------------------
(* Rational arithmetic *)

Rat(n, d) == [n |-> n, d |-> d]

IsFinite(r) == r.d > 0

RMul(a, b) == Rat(a.n * b.n, a.d * b.d)

RAdd(a, b) ==
    IF a.d = b.d THEN Rat(a.n + b.n, a.d)
    ELSE Rat(a.n * b.d + b.n * a.d, a.d * b.d)

RPos(r) == r.n > 0 /\ r.d > 0

Abs(i) == IF i < 0 THEN -i ELSE i

\* Python int(x) for a finite float: truncation toward zero
Trunc(r) == IF r.n >= 0 THEN r.n \div r.d ELSE -((-r.n) \div r.d)

\* largest r with r*r <= x, by bisection on lo*lo <= x < hi*hi
RECURSIVE Bisect(_, _, _)
Bisect(x, lo, hi) ==
    IF hi - lo <= 1 THEN lo
    ELSE LET mid == (lo + hi) \div 2
         IN  IF mid * mid <= x THEN Bisect(x, mid, hi) ELSE Bisect(x, lo, mid)

-----------------------------------------------------------------------------
(* calibration.py *)

NoneVal == [tag |-> "None", n |-> 0, d |-> 1]

Num(r) == [tag |-> "num", n |-> r.n, d |-> r.d]

\* distance(p1, p2), in units of 1/SqrtScale pixel
distance(p1, p2) ==
    LET dx == p1[1] - p2[1]
        dy == p1[2] - p2[2]
    IN  Bisect(SqrtScale * SqrtScale * (dx * dx + dy * dy), 0,
               SqrtScale * (Abs(dx) + Abs(dy)) + 1)

\* a variant that closes the polygon at the wrong corner
side_lengths_open(marker_corners) ==
    << distance(marker_corners[1], marker_corners[2]),
       distance(marker_corners[2], marker_corners[3]),
       distance(marker_corners[3], marker_corners[4]),
       distance(marker_corners[4], marker_corners[2]) >>

side_lengths(marker_corners) ==
    << distance(marker_corners[1], marker_corners[2]),
       distance(marker_corners[2], marker_corners[3]),
       distance(marker_corners[3], marker_corners[4]),
       distance(marker_corners[4], marker_corners[1]) >>

\* np.mean(side_lengths), as a rational number of pixels
avg_side_length_px(marker_corners) ==
    LET s == side_lengths(marker_corners)
    IN  Rat(s[1] + s[2] + s[3] + s[4], 4 * SqrtScale)

\* avg_side_length_px / marker_size_cm with numpy's division:
\* x / 0.0 is inf (x > 0) or nan (x = 0), never an exception
Divide(a, b) ==
    LET num == a.n * b.d
        den == a.d * b.n
    IN  IF den < 0 THEN Rat(-num, -den) ELSE Rat(num, den)

\* a variant that measures the last reported candidate
LastCandidate(cands) == cands[Len(cands)]

\* the candidate detect_aruco_marker measures: ids[0][0], corners[0][0]
FirstCandidate(cands) == cands[1]

\* value detect_aruco_marker returns as pixels_per_cm for the candidates
\* detectMarkers reported
detect_pixels_per_cm(cands, marker_size_cm) ==
    IF Len(cands) = 0
    THEN NoneVal
    ELSE Num(Divide(avg_side_length_px(FirstCandidate(cands).corners),
                    marker_size_cm))

\* calibrated_cm_to_pixels: int(cm * pixels_per_cm); int() of inf raises
\* OverflowError and int() of nan raises ValueError
calibrated_cm_to_pixels(cm, ppc) ==
    LET p == RMul(cm, ppc)
    IN  IF p.d = 0
        THEN [raised |-> TRUE, val |-> 0]
        ELSE [raised |-> FALSE, val |-> Trunc(p)]

-----------------------------------------------------------------------------
(* add_grid.py *)

\* cm_to_pixels: inches = cm / 2.54; int(inches * dpi)
cm_to_pixels(cm, dpi) == Trunc(Rat(cm.n * 100 * dpi, cm.d * 254))

\* the dpi add_grid_to_image uses: img.info['dpi'][0], or 72 without it
ImageDpi(info) == IF info.present THEN info.val ELSE DefaultDpi

-----------------------------------------------------------------------------
(* generate_aruco_marker.py *)

\* a bit of the DICT_6X6_250 pattern of marker_id, for the inner cell
\* (i, j), 1 <= i, j <= 6; the dictionary's table belongs to OpenCV, and
\* this pattern stands in for it
DictBit(marker_id, i, j) == (marker_id + 6 * (i - 1) + j) % 3 = 0

\* cv2.aruco.generateImageMarker(aruco_dict, marker_id, sidePixels): the
\* grey value at (r, c) of the 8x8-cell pattern (a black border ring
\* around the 6x6 bits) scaled to sidePixels without interpolation
MarkerPixel(marker_id, sidePixels, r, c) ==
    LET i == (8 * r) \div sidePixels
        j == (8 * c) \div sidePixels
    IN  IF i \in {0, 7} \/ j \in {0, 7} THEN 0
        ELSE IF DictBit(marker_id, i, j) THEN 255 ELSE 0

\* a variant that pastes the marker into the top-left corner
generate_aruco_marker_corner(marker_id, marker_size_cm, dpi) ==
    LET marker_size_pixels ==
            Trunc(Rat(marker_size_cm.n * 100 * dpi, marker_size_cm.d * 254))
        border_size == Trunc(Rat(marker_size_pixels * 2, 10))
        total_size == marker_size_pixels + 2 * border_size
    IN  [id |-> marker_id,
         marker_size_pixels |-> marker_size_pixels,
         border_size |-> border_size,
         total_size |-> total_size,
         output_img |->
            [rc \in (0..(total_size - 1)) \X (0..(total_size - 1)) |->
                IF /\ rc[1] < marker_size_pixels
                   /\ rc[2] < marker_size_pixels
                THEN MarkerPixel(marker_id, marker_size_pixels, rc[1], rc[2])
                ELSE 255]]

\* generate_aruco_marker: output_img (grey values by <<row, column>>),
\* marker_size_pixels and total_size, and the border_size used
generate_aruco_marker(marker_id, marker_size_cm, dpi) ==
    LET marker_size_pixels ==
            Trunc(Rat(marker_size_cm.n * 100 * dpi, marker_size_cm.d * 254))
        border_size == Trunc(Rat(marker_size_pixels * 2, 10))
        total_size == marker_size_pixels + 2 * border_size
    IN  [id |-> marker_id,
         marker_size_pixels |-> marker_size_pixels,
         border_size |-> border_size,
         total_size |-> total_size,
         output_img |->
            [rc \in (0..(total_size - 1)) \X (0..(total_size - 1)) |->
                IF /\ rc[1] >= border_size
                   /\ rc[1] < border_size + marker_size_pixels
                   /\ rc[2] >= border_size
                   /\ rc[2] < border_size + marker_size_pixels
                THEN MarkerPixel(marker_id, marker_size_pixels,
                                 rc[1] - border_size, rc[2] - border_size)
                ELSE 255]]

\* a variant whose upper limit is off by one
ValidMarkerIdOffByOne(id) == ~(id < 0 \/ id > DictSize)

\* main's check of --id against the dictionary
ValidMarkerId(id) == ~(id < 0 \/ id >= DictSize)

-----------------------------------------------------------------------------
(* Paths.  A path is its string split at every '.': "images/b.v2.JPG" is  *)
(* <<"images/b", "v2", "JPG">>, and a file name is a path relative to its  *)
(* directory.                                                              *)

\* date_str = datetime.now().strftime('%Y-%m-%d'): no '.' and no '/'
date_str == "2026-11-02"

supported_formats == { "png", "jpg", "jpeg", "bmp", "tiff", "tif" }

\* str.lower() on the extensions of the file names in use
lower(s) == CASE s = "JPG" -> "jpg" [] s = "PNG" -> "png" [] OTHER -> s

\* Path.suffix without its dot; empty for a name without a dot
suffix(name) == IF Len(name) >= 2 THEN name[Len(name)] ELSE ""

\* [f for f in images_dir.iterdir() if f.suffix.lower() in supported_formats]
FilterImages(entries) ==
    SelectSeq(entries, LAMBDA f : lower(suffix(f)) \in supported_formats)

\* dir / name
InDir(dir, name) == << dir \o "/" \o name[1] >> \o Tail(name)

\* images_dir / name, the img_path of the loop
img_path(name) == InDir("images", name)

output_dir ==
    IF prog = "calibrated" THEN "grid_calibrated_" \o date_str
    ELSE "grid_" \o date_str

originals_dir ==
    IF prog = "calibrated" THEN "originals_calibrated_" \o date_str
    ELSE "originals_" \o date_str

\* originals_dir / img_path.name
original_dest(name) == InDir(originals_dir, name)

\* f"{img_path.stem}_calibrated_{date_str}{img_path.suffix}" (add_grid.py:
\* "_grid_"); the stem is the name up to its last '.'
output_name(name) ==
    LET tag == IF prog = "calibrated" THEN "_calibrated_" ELSE "_grid_"
        n == Len(name)
    IN  [k \in 1..n |->
            IF k = n - 1 \/ n = 1 THEN name[k] \o tag \o date_str
            ELSE name[k]]

\* output_dir / output_name
output_path(name) == InDir(output_dir, output_name(name))

\* str(image_path).replace('.', '_debug.'): every '.' of the path is
\* replaced
debug_path(path) ==
    [k \in 1..Len(path) |->
        IF k < Len(path) THEN path[k] \o "_debug" ELSE path[k]]

-----------------------------------------------------------------------------
(* The for loops of add_calibrated_grid_to_image / add_grid_to_image *)

\* a variant that also yields the coordinate equal to stop
RangeLenInclusive(stop, step) ==
    IF step > 0 /\ stop > 0 THEN stop \div step + 1 ELSE 0

\* len(range(0, stop, step)) for step > 0, and for step < 0 (empty)
RangeLen(stop, step) ==
    IF step > 0 /\ stop > 0 THEN (stop - 1) \div step + 1 ELSE 0

\* range(0, stop, step) as a sequence; step # 0
Range(stop, step) == [k \in 1..RangeLen(stop, step) |-> (k - 1) * step]

\* the vertical-line loop: one <<x, cm_counter>> pair per iteration, with
\* cm_counter starting at 0 and incremented by grid_spacing_cm after each
\* line; drawn is the list of pairs of the iterations already run
RECURSIVE VerticalLoop(_, _, _)
VerticalLoop(xs, drawn, grid_spacing_cm) ==
    IF Len(drawn) = Len(xs)
    THEN drawn
    ELSE LET k == Len(drawn) + 1
             cm_counter == IF k = 1 THEN Rat(0, grid_spacing_cm.d)
                           ELSE RAdd(drawn[k - 1][2], grid_spacing_cm)
         IN  CHOOSE lines \in { VerticalLoop(xs, d, grid_spacing_cm) :
                                d \in { Append(drawn, <<xs[k], cm_counter>>) } } :
                 TRUE

VerticalLines(width, step, grid_spacing_cm) ==
    VerticalLoop(Range(width, step), << >>, grid_spacing_cm)

HorizontalLines(height, step) == Range(height, step)

-----------------------------------------------------------------------------
(* Text annotations.  bbox is draw.textbbox((0, 0), text, font), the box   *)
(* <<left, top, right, bottom>> of the text drawn at the origin; the text  *)
(* drawn at (text_x, text_y) covers that box shifted by (text_x, text_y).  *)

\* anchor, background rectangle and text extent of one annotation on an
\* image of the given width and height; x is the line a scale label
\* belongs to
Annotation(kind, bbox, width, height, x) ==
    LET text_width == bbox[3] - bbox[1]
        text_height == bbox[4] - bbox[2]
        text_x == CASE kind = "label" -> x - text_width \div 2
                    [] kind \in {"timestamp", "weight"} ->
                           width - text_width - 10
                    [] kind \in {"viewpoint", "caption"} -> 10
        text_y == CASE kind = "label" -> 5
                    [] kind \in {"timestamp", "caption"} ->
                           height - text_height - 10
                    [] kind \in {"weight", "viewpoint"} -> 10
        padding == IF kind = "label" THEN 2 ELSE 5
    IN  [kind |-> kind,
         bbox |-> bbox,
         padding |-> padding,
         rect |-> << text_x - padding, text_y - padding,
                     text_x + text_width + padding,
                     text_y + text_height + padding >>,
         text |-> << text_x + bbox[1], text_y + bbox[2],
                     text_x + bbox[3], text_y + bbox[4] >>]

-----------------------------------------------------------------------------
(* Inputs *)

Spacings == { Rat(-1, 1), Rat(0, 1), Rat(1, 200), Rat(1, 2), Rat(1, 1) }

MarkerSizes == { Rat(-1, 1), Rat(0, 1), Rat(1, 1), Rat(2, 1) }

\* corner quadrilaterals a detection may report: an axis-aligned square of
\* side 100, a rotated square of side 75, a foreshortened trapezoid and a
\* degenerate quadrilateral whose corners coincide
QSquare == << <<0, 0>>, <<100, 0>>, <<100, 100>>, <<0, 100>> >>

QRotated == << <<45, 0>>, <<105, 45>>, <<60, 105>>, <<0, 60>> >>

QTrapezoid == << <<0, 0>>, <<96, 0>>, <<80, 60>>, <<10, 60>> >>

QDegenerate == << <<5, 5>>, <<5, 5>>, <<5, 5>>, <<5, 5>> >>

Candidates == { [id |-> 0, corners |-> QSquare],
                [id |-> 7, corners |-> QRotated],
                [id |-> 42, corners |-> QTrapezoid],
                [id |-> 249, corners |-> QDegenerate] }

\* what detectMarkers may report: 0..MaxCandidates candidates, in order
Detections ==
    UNION { [1..k -> Candidates] : k \in 0..MaxCandidates }

\* names of files that may lie in the images directory
FileNames == { << "a", "png" >>, << "a_debug", "png" >>,
               << "b", "v2", "JPG" >>, << "notes", "txt" >> }

NoDir == [exists |-> FALSE, entries |-> << >>]

\* iterdir() order of a directory that holds images only
Listing ==
    << << "a", "png" >>, << "b", "v2", "JPG" >>, << "a_debug", "png" >> >>

\* states of the images directory: missing, without an image file, or
\* holding up to MaxImages images
Dirs ==
    { NoDir, [exists |-> TRUE, entries |-> << << "notes", "txt" >> >>] }
    \cup { [exists |-> TRUE, entries |-> SubSeq(Listing, 1, k)] :
             k \in 0..(IF MaxImages < Len(Listing) THEN MaxImages
                       ELSE Len(Listing)) }

\* a measurement of the fallback font the batches load
DefaultFontBox == << 0, 3, 40, 11 >>

\* text boxes a font measurement may return: left and top offsets of zero,
\* below and above the paddings, and a negative left offset
TextBoxes ==
    { << l, t, l + w, t + h >> :
        l \in {-1, 0, 1, 3}, t \in {0, 1, 3, 6}, w \in {7, 40}, h \in {8, 14} }

AnnotationKinds == { "label", "timestamp", "weight", "viewpoint", "caption" }

\* every state of the images directory with up to MaxImages entries,
\* in any iterdir() order
AllDirs ==
    { NoDir }
    \cup { [exists |-> TRUE, entries |-> e] :
             e \in { e \in UNION { [1..k -> FileNames] : k \in 0..MaxImages } :
                       \A i, j \in 1..Len(e) : i < j => e[i] # e[j] } }

\* image sizes (width, height)
Dims == { <<1000, 800>>, <<10, 6>> }

\* img.info of an opened image: the 'dpi' entry, when the file has one
DpiInfos == { [present |-> FALSE, val |-> 0], [present |-> TRUE, val |-> 96],
              [present |-> TRUE, val |-> 300] }

\* --id, --size and --dpi values of the marker generator; the sizes and
\* resolutions give marker_size_pixels >= 8, which generateImageMarker needs
MarkerIds == { -1, 0, 42, 249, 250, 300 }

PrintSizes == { Rat(127, 50), Rat(10, 1) }

PrintDpis == { 10, 25 }

NoMarkerImg == [id |-> -1, marker_size_pixels |-> 0, border_size |-> 0,
                total_size |-> 0, output_img |-> << >>]

NoImg == [open |-> FALSE, w |-> 0, h |-> 0, dpi |-> 0]

NoStep == [set |-> FALSE, val |-> 0]

-----------------------------------------------------------------------------
(* Initial state: the process has started, nothing is parsed yet *)

DefaultArgs ==
    [calibrate_size |-> Rat(1, 1), spacing |-> Rat(5, 1), debug |-> FALSE,
     id |-> 0, size |-> Rat(10, 1), dpi |-> 300,
     output |-> << "aruco_marker", "png" >>,
     weight |-> FALSE, viewpoint |-> FALSE]

\* every marker size with every spacing, and --debug with every spacing
CalibratedArgs ==
    { [DefaultArgs EXCEPT !.calibrate_size = m, !.spacing = s]
        : m \in MarkerSizes, s \in Spacings }
    \cup { [DefaultArgs EXCEPT !.spacing = s, !.debug = TRUE]
             : s \in Spacings }

GridArgs == { [DefaultArgs EXCEPT !.spacing = s] : s \in Spacings }

MarkerArgs ==
    { [DefaultArgs EXCEPT !.id = i, !.size = z, !.dpi = d]
        : i \in MarkerIds, z \in PrintSizes, d \in PrintDpis }

Idle ==
    /\ summary = << >>
    /\ annot = << >>
    /\ image_files = 0
    /\ idx = 0
    /\ success_count = 0
    /\ skipped_count = 0
    /\ exit_code = -1
    /\ written = {}
    /\ attempts = << >>
    /\ copied = FALSE
    /\ pixels_per_cm = NoneVal
    /\ detected = << >>
    /\ grid_spacing_px = NoStep
    /\ img = NoImg
    /\ vlines = << >>
    /\ hlines = << >>
    /\ result = "none"
    /\ marker_img = NoMarkerImg

Init ==
    /\ \/ prog = "calibrated" /\ args \in CalibratedArgs /\ images_dir \in Dirs
       \/ prog = "grid" /\ args \in GridArgs /\ images_dir \in Dirs
       \/ prog = "marker" /\ args \in MarkerArgs /\ images_dir = NoDir
    /\ pc = "start"
    /\ Idle

perImage == <<copied, pixels_per_cm, detected, grid_spacing_px, img, vlines,
              hlines, result>>

batch == <<image_files, idx, success_count, skipped_count, attempts>>

-----------------------------------------------------------------------------
(* add_grid_calibrated.py: main *)

\* the list main() builds from the directory; the directory is listed
\* once, before the loop
ImageFiles == FilterImages(images_dir.entries)

\* a variant that lets an empty file set through to the loop
StartNoEmptyCheck ==
    /\ pc = "start"
    /\ prog \in {"calibrated", "grid"}
    /\ IF ~images_dir.exists
       THEN /\ pc' = "exit"
            /\ exit_code' = 1
            /\ UNCHANGED <<image_files, idx, attempts>>
       ELSE /\ pc' = "copy"
            /\ image_files' = Len(ImageFiles)
            /\ idx' = 1
            /\ attempts' = [i \in 1..Len(ImageFiles) |-> 0]
            /\ UNCHANGED exit_code
    /\ UNCHANGED <<prog, args, images_dir, summary, annot, success_count,
                   skipped_count, written, perImage, marker_img>>

\* main up to the loop: parse_args, mkdir, directory check, file discovery
Start ==
    /\ pc = "start"
    /\ prog \in {"calibrated", "grid"}
    /\ IF ~images_dir.exists \/ ImageFiles = << >>
       THEN /\ pc' = "exit"
            /\ exit_code' = 1
            /\ UNCHANGED <<image_files, idx, attempts>>
       ELSE /\ pc' = "copy"
            /\ image_files' = Len(ImageFiles)
            /\ idx' = 1
            /\ attempts' = [i \in 1..Len(ImageFiles) |-> 0]
            /\ UNCHANGED exit_code
    /\ UNCHANGED <<prog, args, images_dir, summary, annot, success_count,
                   skipped_count, written, perImage, marker_img>>

\* the files the i-th image's processing writes
OriginalFile(i) ==
    [kind |-> "original", i |-> i, path |-> original_dest(ImageFiles[i])]

GridFile(i) ==
    [kind |-> "grid", i |-> i, path |-> output_path(ImageFiles[i])]

DebugFile(i) ==
    [kind |-> "debug", i |-> i, path |-> debug_path(img_path(ImageFiles[i]))]

\* shutil.copy2(img_path, original_dest) inside its own try/except
CopyOriginal ==
    /\ pc = "copy"
    /\ idx <= image_files
    /\ \E ok \in BOOLEAN :
          /\ copied' = ok
          /\ written' = IF ok THEN written \cup {OriginalFile(idx)}
                        ELSE written
    /\ pixels_per_cm' = NoneVal
    /\ detected' = << >>
    /\ grid_spacing_px' = NoStep
    /\ img' = NoImg
    /\ vlines' = << >>
    /\ hlines' = << >>
    /\ result' = "none"
    /\ annot' = << >>
    /\ pc' = "process"
    /\ UNCHANGED <<prog, args, images_dir, summary, batch, exit_code,
                   marker_img>>

\* a variant that counts every call that did not raise as a success
EndImageCountsFalse(outcome) ==
    /\ result' = outcome
    /\ success_count' = IF outcome # "error" THEN success_count + 1
                        ELSE success_count
    /\ skipped_count' = IF outcome # "error" THEN skipped_count
                        ELSE skipped_count + 1
    /\ idx' = idx + 1
    /\ pc' = "copy"

\* a variant in which an exception ends the batch
EndImageAborts(outcome) ==
    /\ result' = outcome
    /\ success_count' = IF outcome = "success" THEN success_count + 1
                        ELSE success_count
    /\ skipped_count' = IF outcome = "success" THEN skipped_count
                        ELSE skipped_count + 1
    /\ idx' = IF outcome = "error" THEN idx ELSE idx + 1
    /\ pc' = IF outcome = "error" THEN "exit" ELSE "copy"

\* the end of one loop iteration of add_grid_calibrated.main: the call
\* returned True, returned False, or raised
EndImage(outcome) ==
    /\ result' = outcome
    /\ success_count' = IF outcome = "success" THEN success_count + 1
                        ELSE success_count
    /\ skipped_count' = IF outcome = "success" THEN skipped_count
                        ELSE skipped_count + 1
    /\ idx' = idx + 1
    /\ pc' = "copy"

\* detect_aruco_marker, called first by add_calibrated_grid_to_image
DetectMarker ==
    /\ pc = "process"
    /\ prog = "calibrated"
    /\ attempts' = [attempts EXCEPT ![idx] = @ + 1]
    /\ \/ \* Image.open / convert raises
          /\ EndImage("error")
          /\ UNCHANGED <<written, pixels_per_cm, detected>>
       \/ \E cands \in Detections :
             LET ppc == detect_pixels_per_cm(cands, args.calibrate_size)
             IN  /\ detected' = cands
                 /\ pixels_per_cm' = ppc
                 /\ IF ppc.tag = "None"
                    THEN /\ EndImage("no_marker")
                         /\ UNCHANGED written
                    ELSE \/ /\ written' =
                                 IF args.debug
                                 THEN written \cup {DebugFile(idx)}
                                 ELSE written
                            /\ pc' = "spacing"
                            /\ UNCHANGED <<idx, success_count, skipped_count,
                                           result>>
                         \/ \* debug_pil.save raises
                            /\ args.debug
                            /\ EndImage("error")
                            /\ UNCHANGED written
    /\ UNCHANGED <<prog, args, images_dir, summary, annot, image_files,
                   exit_code, copied, grid_spacing_px, img, vlines, hlines,
                   marker_img>>

\* grid_spacing_px = calibrated_cm_to_pixels(grid_spacing_cm, pixels_per_cm);
\* marker_corners and marker_id are not read after this point
ComputeSpacing ==
    /\ pc = "spacing"
    /\ LET r == calibrated_cm_to_pixels(args.spacing, pixels_per_cm)
       IN  IF r.raised
           THEN /\ EndImage("error")
                /\ UNCHANGED grid_spacing_px
           ELSE /\ grid_spacing_px' = [set |-> TRUE, val |-> r.val]
                /\ pc' = "draw"
                /\ UNCHANGED <<idx, success_count, skipped_count, result>>
    /\ detected' = << >>
    /\ UNCHANGED <<prog, args, images_dir, summary, annot, image_files,
                   attempts, exit_code, written, copied, pixels_per_cm, img,
                   vlines, hlines, marker_img>>

\* Image.open, ImageDraw.Draw and the two range() loops; the dpi is only
\* handed on to img.save
DrawGrid ==
    /\ pc = "draw"
    /\ prog = "calibrated"
    /\ \/ \* Image.open raises
          /\ EndImage("error")
          /\ UNCHANGED <<img, vlines, hlines>>
       \/ \E dim \in Dims :
             /\ img' = [open |-> TRUE, w |-> dim[1], h |-> dim[2],
                        dpi |-> DefaultDpi]
             /\ IF grid_spacing_px.val = 0
                THEN \* range() arg 3 must not be zero: ValueError
                     /\ EndImage("error")
                     /\ UNCHANGED <<vlines, hlines>>
                ELSE /\ vlines' = VerticalLines(dim[1], grid_spacing_px.val,
                                                args.spacing)
                     /\ hlines' = HorizontalLines(dim[2], grid_spacing_px.val)
                     /\ pc' = "annotate"
                     /\ UNCHANGED <<idx, success_count, skipped_count, result>>
    /\ UNCHANGED <<prog, args, images_dir, summary, annot, image_files,
                   attempts, exit_code, written, copied, pixels_per_cm,
                   detected, grid_spacing_px, marker_img>>

\* the corner annotations drawn after the loops: timestamp, weight (when
\* given) and the calibration caption
Annotate ==
    /\ pc = "annotate"
    /\ prog = "calibrated"
    /\ annot' =
          << Annotation("timestamp", DefaultFontBox, img.w, img.h, 0) >>
          \o (IF args.weight
              THEN << Annotation("weight", DefaultFontBox, img.w, img.h, 0) >>
              ELSE << >>)
          \o << Annotation("caption", DefaultFontBox, img.w, img.h, 0) >>
    /\ pc' = "save"
    /\ UNCHANGED <<prog, args, images_dir, summary, batch, exit_code, written,
                   copied, pixels_per_cm, detected, grid_spacing_px, img,
                   vlines, hlines, result, marker_img>>

\* a variant that saves as soon as the step is known, before the layout
SaveImageEarly ==
    /\ pc = "draw"
    /\ prog = "calibrated"
    /\ written' = written \cup {GridFile(idx)}
    /\ EndImage("success")
    /\ UNCHANGED <<prog, args, images_dir, summary, annot, image_files,
                   attempts, exit_code, copied, pixels_per_cm, detected,
                   grid_spacing_px, img, vlines, hlines, marker_img>>

\* img.save(output_path, dpi=(dpi, dpi)); return True
SaveImage ==
    /\ pc = "save"
    /\ prog = "calibrated"
    /\ \/ \* img.save raises
          /\ EndImage("error")
          /\ UNCHANGED written
       \/ /\ written' = written \cup {GridFile(idx)}
          /\ EndImage("success")
    /\ UNCHANGED <<prog, args, images_dir, summary, annot, image_files,
                   attempts, exit_code, copied, pixels_per_cm, detected,
                   grid_spacing_px, img, vlines, hlines, marker_img>>

\* the loop is exhausted: print the summary and return
Summary ==
    /\ pc = "copy"
    /\ idx > image_files
    /\ pc' = "done"
    /\ exit_code' = 0
    /\ summary' = IF prog = "calibrated"
                  THEN << << "Successfully processed", success_count >>,
                          << "Skipped (no marker)", skipped_count >> >>
                  ELSE << >>
    /\ UNCHANGED <<prog, args, images_dir, annot, batch, written, perImage,
                   marker_img>>

-----------------------------------------------------------------------------
(* add_grid.py: main and add_grid_to_image *)

\* the end of one loop iteration of add_grid.main, which keeps no counters
EndImageMeta(outcome) ==
    /\ result' = outcome
    /\ idx' = idx + 1
    /\ pc' = "copy"

\* Image.open, the dpi lookup and cm_to_pixels
MetaOpen ==
    /\ pc = "process"
    /\ prog = "grid"
    /\ attempts' = [attempts EXCEPT ![idx] = @ + 1]
    /\ \/ \* Image.open raises
          /\ EndImageMeta("error")
          /\ UNCHANGED <<img, grid_spacing_px>>
       \/ \E dim \in Dims, info \in DpiInfos :
             /\ img' = [open |-> TRUE, w |-> dim[1], h |-> dim[2],
                        dpi |-> ImageDpi(info)]
             /\ grid_spacing_px' =
                    [set |-> TRUE,
                     val |-> cm_to_pixels(args.spacing, ImageDpi(info))]
             /\ pc' = "draw"
             /\ UNCHANGED <<idx, result>>
    /\ UNCHANGED <<prog, args, images_dir, summary, annot, image_files,
                   success_count, skipped_count, exit_code, written, copied,
                   pixels_per_cm, detected, vlines, hlines, marker_img>>

\* the two range() loops of add_grid_to_image
MetaDraw ==
    /\ pc = "draw"
    /\ prog = "grid"
    /\ \/ \* range() arg 3 must not be zero: ValueError
          /\ grid_spacing_px.val = 0
          /\ EndImageMeta("error")
          /\ UNCHANGED <<vlines, hlines>>
       \/ /\ grid_spacing_px.val # 0
          /\ vlines' = VerticalLines(img.w, grid_spacing_px.val,
                                     args.spacing)
          /\ hlines' = HorizontalLines(img.h, grid_spacing_px.val)
          /\ pc' = "annotate"
          /\ UNCHANGED <<idx, result>>
    /\ UNCHANGED <<prog, args, images_dir, summary, annot, image_files,
                   success_count, skipped_count, attempts, exit_code, written,
                   copied, pixels_per_cm, detected, grid_spacing_px, img,
                   marker_img>>

\* the corner annotations of add_grid_to_image: timestamp, weight and
\* viewpoint (when given)
MetaAnnotate ==
    /\ pc = "annotate"
    /\ prog = "grid"
    /\ annot' =
          << Annotation("timestamp", DefaultFontBox, img.w, img.h, 0) >>
          \o (IF args.weight
              THEN << Annotation("weight", DefaultFontBox, img.w, img.h, 0) >>
              ELSE << >>)
          \o (IF args.viewpoint
              THEN << Annotation("viewpoint", DefaultFontBox, img.w, img.h,
                                 0) >>
              ELSE << >>)
    /\ pc' = "save"
    /\ UNCHANGED <<prog, args, images_dir, summary, batch, exit_code, written,
                   copied, pixels_per_cm, detected, grid_spacing_px, img,
                   vlines, hlines, result, marker_img>>

\* img.save(output_path, dpi=(dpi, dpi))
MetaSave ==
    /\ pc = "save"
    /\ prog = "grid"
    /\ \/ \* img.save raises
          /\ EndImageMeta("error")
          /\ UNCHANGED written
       \/ /\ written' = written \cup {GridFile(idx)}
          /\ EndImageMeta("success")
    /\ UNCHANGED <<prog, args, images_dir, summary, annot, image_files,
                   success_count, skipped_count, attempts, exit_code, copied,
                   pixels_per_cm, detected, grid_spacing_px, img, vlines,
                   hlines, marker_img>>

-----------------------------------------------------------------------------
(* generate_aruco_marker.py: main *)

\* if args.id < 0 or args.id >= 250: exit(1)
MarkerCheckId ==
    /\ pc = "start"
    /\ prog = "marker"
    /\ IF ValidMarkerId(args.id)
       THEN pc' = "generate" /\ UNCHANGED exit_code
       ELSE pc' = "exit" /\ exit_code' = 1
    /\ UNCHANGED <<prog, args, images_dir, summary, annot, batch, written,
                   perImage, marker_img>>

\* marker_img, marker_px, total_px = generate_aruco_marker(...)
MarkerGenerate ==
    /\ pc = "generate"
    /\ marker_img' = generate_aruco_marker(args.id, args.size, args.dpi)
    /\ pc' = "save_marker"
    /\ UNCHANGED <<prog, args, images_dir, summary, annot, batch, exit_code,
                   written, perImage>>

\* pil_img.save(output_path, dpi=(args.dpi, args.dpi)) and the final prints
MarkerSave ==
    /\ pc = "save_marker"
    /\ written' = written \cup {[kind |-> "marker", i |-> 0,
                                   path |-> args.output]}
    /\ pc' = "done"
    /\ exit_code' = 0
    /\ UNCHANGED <<prog, args, images_dir, summary, annot, batch, perImage,
                   marker_img>>

-----------------------------------------------------------------------------

Next ==
    \/ Start
    \/ CopyOriginal
    \/ DetectMarker
    \/ ComputeSpacing
    \/ DrawGrid
    \/ Annotate
    \/ SaveImage
    \/ Summary
    \/ MetaOpen
    \/ MetaDraw
    \/ MetaAnnotate
    \/ MetaSave
    \/ MarkerCheckId
    \/ MarkerGenerate
    \/ MarkerSave

Spec == Init /\ [][Next]_vars

\* the programs are sequential and never wait: a step that can be taken is
\* taken
FairSpec == Spec /\ WF_vars(Next)

-----------------------------------------------------------------------------
(* The scale derivation of detect_aruco_marker as a function of the corner *)
(* sequence: corners range over all quadrilaterals on a small lattice      *)

Lattice == (0..MaxCoord) \X (0..MaxCoord)

LatticeQuads == [1..4 -> Lattice]

ScaleSizes == { Rat(1, 1), Rat(2, 1), Rat(5, 2) }

\* the corner sequence shifted cyclically by one position
RotateCorners(c) == << c[2], c[3], c[4], c[1] >>

InitScale ==
    /\ prog = "scale"
    /\ args \in { [DefaultArgs EXCEPT !.calibrate_size = m] : m \in ScaleSizes }
    /\ images_dir = NoDir
    /\ pc = "measure"
    /\ Idle

\* lines 43-59 of detect_aruco_marker on one reported candidate
ScaleMeasure ==
    /\ pc = "measure"
    /\ \E q \in LatticeQuads :
          /\ detected' = << [id |-> 0, corners |-> q] >>
          /\ pixels_per_cm' =
                detect_pixels_per_cm(<< [id |-> 0, corners |-> q] >>,
                                     args.calibrate_size)
    /\ pc' = "rotate"
    /\ UNCHANGED <<prog, args, images_dir, summary, annot, batch, exit_code,
                   written, copied, grid_spacing_px, img, vlines, hlines,
                   result, marker_img>>

\* the same marker seen rotated: the detector reports the corner sequence
\* shifted cyclically
ScaleRotate ==
    /\ pc = "rotate"
    /\ LET c == << [id |-> 0,
                    corners |-> RotateCorners(detected[1].corners)] >>
       IN  /\ detected' = c
           /\ pixels_per_cm' = detect_pixels_per_cm(c, args.calibrate_size)
    /\ result' = "rotated"
    /\ UNCHANGED <<prog, args, images_dir, summary, annot, pc, batch,
                   exit_code, written, copied, grid_spacing_px, img, vlines,
                   hlines, marker_img>>

NextScale ==
    \/ ScaleMeasure
    \/ ScaleRotate

SpecScale == InitScale /\ [][NextScale]_vars

-----------------------------------------------------------------------------
(* The annotation geometry as a function of the font measurement: one      *)
(* annotation of any kind is drawn with any of the text boxes              *)

\* x-coordinates of the line a scale label belongs to
LabelXs == { 0, 100, 900 }

InitAnnot ==
    /\ prog = "annotate"
    /\ args = DefaultArgs
    /\ images_dir = NoDir
    /\ pc = "open"
    /\ Idle

\* Image.open: the size of the drawing surface
AnnotOpen ==
    /\ pc = "open"
    /\ \E dim \in Dims :
          img' = [open |-> TRUE, w |-> dim[1], h |-> dim[2],
                  dpi |-> DefaultDpi]
    /\ pc' = "annotate"
    /\ UNCHANGED <<prog, args, images_dir, summary, annot, batch, exit_code,
                   written, copied, pixels_per_cm, detected, grid_spacing_px,
                   vlines, hlines, result, marker_img>>

\* textbbox, draw.rectangle and draw.text of one annotation
AnnotDraw ==
    /\ pc = "annotate"
    /\ \E kind \in AnnotationKinds, bbox \in TextBoxes, x \in LabelXs :
          /\ kind # "label" => x = 0
          /\ annot' = << Annotation(kind, bbox, img.w, img.h, x) >>
    /\ pc' = "drawn"
    /\ UNCHANGED <<prog, args, images_dir, summary, batch, exit_code, written,
                   perImage, marker_img>>

NextAnnot ==
    \/ AnnotOpen
    \/ AnnotDraw

SpecAnnot == InitAnnot /\ [][NextAnnot]_vars

-----------------------------------------------------------------------------
(* The two batches over every content of the images directory, with the    *)
(* default marker size and a spacing of 1 cm                               *)

InitFiles ==
    /\ \/ /\ prog = "calibrated"
          /\ args \in { [DefaultArgs EXCEPT !.spacing = Rat(1, 1),
                                            !.debug = dbg] : dbg \in BOOLEAN }
       \/ /\ prog = "grid"
          /\ args = [DefaultArgs EXCEPT !.spacing = Rat(1, 1)]
    /\ images_dir \in AllDirs
    /\ pc = "start"
    /\ Idle

NextFiles ==
    \/ Start
    \/ CopyOriginal
    \/ DetectMarker
    \/ ComputeSpacing
    \/ DrawGrid
    \/ Annotate
    \/ SaveImage
    \/ Summary
    \/ MetaOpen
    \/ MetaDraw
    \/ MetaAnnotate
    \/ MetaSave

SpecFiles == InitFiles /\ [][NextFiles]_vars

-----------------------------------------------------------------------------
(* Shared vocabulary of the properties *)

\* the image the per-image variables describe
CurImage == IF pc \in {"copy", "done"} THEN idx - 1 ELSE idx

\* both range() loops of the current image have run
Drawn == img.open /\ grid_spacing_px.set /\ grid_spacing_px.val # 0
         /\ pc # "draw"

\* the product grid_spacing_cm * pixels_per_cm of the current image
StepProduct == RMul(args.spacing, pixels_per_cm)

\* squared Euclidean distance of two points
Dist2(p, q) == (p[1] - q[1]) * (p[1] - q[1]) + (p[2] - q[2]) * (p[2] - q[2])

\* len is the Euclidean distance of p and q at the resolution 1/SqrtScale
IsEuclid(len, p, q) ==
    /\ len >= 0
    /\ len * len <= SqrtScale * SqrtScale * Dist2(p, q)
    /\ (len + 1) * (len + 1) > SqrtScale * SqrtScale * Dist2(p, q)


-----------------------------------------------------------------------------
(* C1: grid step of the calibrated pipeline *)

\* the calibrated pipeline holds a step computed from a positive spacing
\* and a positive, finite scale
PositiveStepCase ==
    /\ prog = "calibrated"
    /\ grid_spacing_px.set
    /\ pixels_per_cm.tag = "num"
    /\ RPos(args.spacing)
    /\ RPos(pixels_per_cm)

\* consecutive lines are grid_spacing_px apart
LinesStepBy(step) ==
    /\ \A k \in 1..(Len(vlines) - 1) : vlines[k + 1][1] - vlines[k][1] = step
    /\ \A k \in 1..(Len(hlines) - 1) : hlines[k + 1] - hlines[k] = step

\* C1: for positive spacingCm and pixelsPerCm the step used by the
\* calibrated pipeline is the integer nearest to spacingCm * pixelsPerCm
\* (at most 1/2 away from it), the lines are that step apart, and the step
\* is >= 1 whenever lines were laid out.
C1_StepIsNearestInteger ==
    PositiveStepCase =>
        /\ 2 * Abs(StepProduct.n - grid_spacing_px.val * StepProduct.d)
               <= StepProduct.d
        /\ (Drawn => grid_spacing_px.val >= 1 /\ LinesStepBy(grid_spacing_px.val))

-----------------------------------------------------------------------------
(* C2: a non-positive step is a reported layout failure *)

\* C2: whenever the computed pixel step is non-positive, no line sequence
\* is produced (the layout never gets as far as saving), no grid output
\* file is saved for that image and the image is not counted as a success.
C2_NonPositiveStepFails ==
    (grid_spacing_px.set /\ grid_spacing_px.val <= 0) =>
        /\ pc # "save"
        /\ result # "success"
        /\ GridFile(CurImage) \notin written

-----------------------------------------------------------------------------
(* C3: positions and labels of the lines *)

\* the x-coordinates of the vertical lines
VerticalXs == [k \in 1..Len(vlines) |-> vlines[k][1]]

\* seq lists exactly the multiples of step below limit, in increasing order
IsMultiplesBelow(seq, step, limit) ==
    /\ \A k \in 1..Len(seq) : seq[k] = (k - 1) * step /\ seq[k] < limit
    /\ Len(seq) * step >= limit
    /\ (limit > 0 => Len(seq) >= 1)

\* the k-th label (k from 0) is k * spacingCm
LabelsCountSpacing ==
    \A k \in 1..Len(vlines) :
        vlines[k][2].n * args.spacing.d = (k - 1) * args.spacing.n * vlines[k][2].d

Scenario1000 ==
    /\ prog = "calibrated"
    /\ Drawn
    /\ img.w = 1000 /\ img.h = 800
    /\ pixels_per_cm.tag = "num"
    /\ IsFinite(pixels_per_cm)
    /\ pixels_per_cm.n = 100 * pixels_per_cm.d
    /\ args.spacing.n = args.spacing.d

\* C3: with a step s >= 1 the vertical lines are exactly x = 0, s, 2s, ...
\* below the width, in increasing order, the k-th labelled k * spacingCm,
\* and the horizontal lines are exactly y = 0, s, 2s, ... below the height;
\* 1000x800 at 100 px/cm and 1 cm spacing gives x = 0..900 labelled 0..9
\* and y = 0..700.
C3_LinePositions ==
    /\ (Drawn /\ grid_spacing_px.val >= 1) =>
          /\ IsMultiplesBelow(VerticalXs, grid_spacing_px.val, img.w)
          /\ IsMultiplesBelow(hlines, grid_spacing_px.val, img.h)
          /\ LabelsCountSpacing
    /\ Scenario1000 =>
          /\ VerticalXs = <<0, 100, 200, 300, 400, 500, 600, 700, 800, 900>>
          /\ \A k \in 1..Len(vlines) : vlines[k][2].n = (k - 1) * vlines[k][2].d
          /\ hlines = <<0, 100, 200, 300, 400, 500, 600, 700>>

C3_Witness == Scenario1000 /\ Len(vlines) = 10 /\ Len(hlines) = 8

-----------------------------------------------------------------------------
(* C4: no marker detected *)

GridFiles == { f \in written : f.kind = "grid" }

\* C4: when detection finds no candidate the resolver returns the
\* not-found value, no drawing surface is opened and nothing is written
\* for the image beyond the copy of the original, the image is counted as
\* skipped and not as a success, the batch goes on to the next image (or to
\* the summary) and does not exit with a failure code.
C4_NoMarkerSkips ==
    (prog = "calibrated" /\ result = "no_marker") =>
        /\ pixels_per_cm = NoneVal
        /\ ~img.open
        /\ ~grid_spacing_px.set
        /\ GridFile(CurImage) \notin written
        /\ DebugFile(CurImage) \notin written
        /\ success_count = Cardinality(GridFiles)
        /\ skipped_count = CurImage - success_count
        /\ skipped_count >= 1
        /\ pc \in {"copy", "done"}
        /\ idx = CurImage + 1
        /\ exit_code = IF pc = "done" THEN 0 ELSE -1

\* a batch of two images ended with code 0, its last image without a
\* marker and the other one saved
C4_Witness ==
    /\ prog = "calibrated"
    /\ result = "no_marker"
    /\ pc = "done"
    /\ exit_code = 0
    /\ image_files = 2
    /\ success_count = 1
    /\ skipped_count = 1

-----------------------------------------------------------------------------
(* C5: the scale comes from the first candidate *)

\* detect_aruco_marker has just returned a scale
JustDetected ==
    /\ prog = "calibrated"
    /\ pc = "spacing"
    /\ Len(detected) >= 1

\* r is the mean of the four Euclidean side lengths of c (corner pairs 1-2,
\* 2-3, 3-4, 4-1) divided by size
IsMeanSideOver(r, c, size) ==
    LET l == side_lengths(c)
    IN  /\ IsEuclid(l[1], c[1], c[2])
        /\ IsEuclid(l[2], c[2], c[3])
        /\ IsEuclid(l[3], c[3], c[4])
        /\ IsEuclid(l[4], c[4], c[1])
        /\ r.n * (4 * SqrtScale * size.n)
             = (l[1] + l[2] + l[3] + l[4]) * size.d * r.d
        /\ (size.n # 0 => r.d # 0)
        /\ (size.n > 0 => r.n >= 0)

\* C5: with one or more candidates, pixels_per_cm is the mean of the four
\* Euclidean side lengths of the first candidate's corners divided by the
\* marker size, whatever further candidates were reported.
C5_FirstCandidateScale ==
    JustDetected =>
        /\ pixels_per_cm.tag = "num"
        /\ IsMeanSideOver(pixels_per_cm, detected[1].corners,
                          args.calibrate_size)

\* two candidates with different corners and ids were reported, the first
\* one with unequal sides
C5_Witness ==
    /\ JustDetected
    /\ Len(detected) = 2
    /\ detected[1].corners = QTrapezoid
    /\ detected[2].corners = QSquare
    /\ detected[2].id # detected[1].id
    /\ RPos(args.calibrate_size)

-----------------------------------------------------------------------------
(* C6: invariance under cyclic rotation of the corners *)

\* C6: shifting the 4-corner sequence cyclically leaves the computed scale
\* (for a fixed marker size), and hence the average side length, unchanged.
C6_RotationInvariant ==
    [][(pc = "rotate" /\ pc' = "rotate") =>
          /\ pixels_per_cm'.tag = "num"
          /\ pixels_per_cm'.n * pixels_per_cm.d
               = pixels_per_cm.n * pixels_per_cm'.d
          /\ pixels_per_cm'.d > 0]_vars

\* a quadrilateral with four different side lengths has been rotated
C6_Witness ==
    /\ prog = "scale"
    /\ pc = "rotate"
    /\ result = "rotated"
    /\ Cardinality({ side_lengths(detected[1].corners)[k] : k \in 1..4 }) = 4

-----------------------------------------------------------------------------
(* C7: the resolver hands out only finite, positive scale factors *)

\* C7: every scale factor the marker resolver returns, and so every one
\* the layout step works from, is a finite number > 0; a non-positive or
\* non-finite value is never returned.
C7_ScaleFactorPositive ==
    (prog = "calibrated" /\ pixels_per_cm.tag = "num") =>
        /\ IsFinite(pixels_per_cm)
        /\ pixels_per_cm.n > 0

-----------------------------------------------------------------------------
(* C8: non-positive --spacing or --calibrate-size *)

BadConfig ==
    \/ prog \in {"calibrated", "grid"} /\ ~RPos(args.spacing)
    \/ prog = "calibrated" /\ ~RPos(args.calibrate_size)

\* C8: with a non-positive --spacing or --calibrate-size the batch aborts
\* before any image is touched: no original is copied, no image is
\* processed or opened and no file is written.
C8_BadConfigAborts ==
    BadConfig =>
        /\ pc \in {"start", "exit"}
        /\ written = {}
        /\ ~img.open
        /\ \A i \in 1..Len(attempts) : attempts[i] = 0

-----------------------------------------------------------------------------
(* C9: marker synthesis checks the id *)

-----------------------------------------------------------------------------
(* C10: per-image failures never abort the batch *)

InBatch == prog \in {"calibrated", "grid"} /\ pc \notin {"start", "exit"}

\* C10: once the images are discovered, whatever happens to an image (no
\* marker, a failed copy, an exception while opening, drawing or saving),
\* processing of every image is started at most once, the batch reaches
\* its summary, and at the summary every image was started exactly once.
C10_BatchCompletes ==
    /\ [](InBatch => \A i \in 1..image_files : attempts[i] <= 1)
    /\ []((InBatch /\ pc = "done") =>
             \A i \in 1..image_files : attempts[i] = 1)
    /\ [](InBatch => <>(pc = "done"))

\* a batch of two images reached the summary although the copy of the
\* last one failed and neither image was saved
C10_Witness ==
    /\ InBatch
    /\ pc = "done"
    /\ image_files = 2
    /\ attempts = <<1, 1>>
    /\ GridFiles = {}
    /\ ~copied
    /\ result = "error"

-----------------------------------------------------------------------------
(* C11: exit codes of the two batches *)

\* the images directory is missing or holds no file with a supported
\* extension
NoInput ==
    \/ ~images_dir.exists
    \/ \A k \in 1..Len(images_dir.entries) :
          lower(suffix(images_dir.entries[k])) \notin supported_formats

\* C11: a grid batch ends with exit code 1 exactly when the images
\* directory is missing or holds no supported image file, and it then
\* ends before the loop; in every other run it ends with exit code 0 at
\* its summary, whatever the outcomes of the images were.
C11_ExitCodes ==
    prog \in {"calibrated", "grid"} =>
        /\ exit_code \in {-1, 0, 1}
        /\ (exit_code = 1) <=> (pc = "exit")
        /\ (exit_code = 0) <=> (pc = "done")
        /\ NoInput => pc \in {"start", "exit"}
        /\ ~NoInput => pc # "exit"

\* a batch of two images ended with code 0 although no image was saved
C11_Witness ==
    /\ prog = "calibrated"
    /\ pc = "done"
    /\ exit_code = 0
    /\ image_files = 2
    /\ success_count = 0
    /\ GridFiles = {}

-----------------------------------------------------------------------------
(* C12: the counts of the final summary *)

\* the sum of the counts the summary printed
RECURSIVE SumCounts(_)
SumCounts(lines) ==
    IF lines = << >> THEN 0 ELSE Head(lines)[2] + SumCounts(Tail(lines))

\* C12: after each loop iteration the outcome counters of the batch add up
\* to the number of images processed so far, and the final summary prints
\* outcome counts whose sum is the number of discovered images.
C12_CountsAccountForImages ==
    InBatch =>
        /\ (pc \in {"copy", "done"} =>
               success_count + skipped_count = CurImage)
        /\ (pc = "done" =>
               /\ summary # << >>
               /\ SumCounts(summary) = image_files)

-----------------------------------------------------------------------------
(* C13: a failed copy of the original *)

\* the copy of the current image's original has failed
CopyFailed == InBatch /\ CurImage >= 1 /\ ~copied

\* C13: an image whose original could not be copied is never counted as
\* successfully processed (its outcome is skipped or errored and no grid
\* output is saved for it), and the batch goes on with the next image.
C13_FailedCopyNotSuccess ==
    CopyFailed =>
        /\ result # "success"
        /\ GridFile(CurImage) \notin written
        /\ (pc \in {"copy", "done"} => idx = CurImage + 1)

-----------------------------------------------------------------------------
(* C14: the background rectangle of an annotation *)

\* rectangle r contains box b with a margin of m on every side
ContainsWithMargin(r, b, m) ==
    /\ r[1] <= b[1] - m
    /\ r[2] <= b[2] - m
    /\ r[3] >= b[3] + m
    /\ r[4] >= b[4] + m

\* C14: for every kind of annotation and every text box the font
\* measurement returns, the background rectangle contains the pixels that
\* the text drawn at its anchor covers, with the fixed padding on every
\* side.
C14_BackgroundContainsText ==
    \A k \in 1..Len(annot) :
        ContainsWithMargin(annot[k].rect, annot[k].text, annot[k].padding)

-----------------------------------------------------------------------------
(* C15: the raster of the marker generator *)

\* generate_aruco_marker has returned
MarkerGenerated == prog = "marker" /\ pc \in {"save_marker", "done"}

\* <<r, c>> lies in the central square of side edge behind a border
InCentralSquare(rc, border, edge) ==
    /\ rc[1] >= border /\ rc[1] < border + edge
    /\ rc[2] >= border /\ rc[2] < border + edge

\* C15: for a valid id, size S cm and D dpi the generator returns a square
\* raster of side total = edge + 2 * border, where edge is S / 2.54 * D
\* and border is 20% of edge, both in whole pixels; the central square of
\* side edge holds the marker pattern of that id and every pixel outside
\* it, on all four sides, is white (255).
C15_MarkerRaster ==
    MarkerGenerated =>
        LET edge == marker_img.marker_size_pixels
            border == marker_img.border_size
            total == marker_img.total_size
        IN  /\ edge * 254 * args.size.d <= args.size.n * 100 * args.dpi
            /\ args.size.n * 100 * args.dpi < (edge + 1) * 254 * args.size.d
            /\ 5 * border <= edge
            /\ edge < 5 * (border + 1)
            /\ border >= 1
            /\ total = edge + 2 * border
            /\ DOMAIN marker_img.output_img
                  = (0..(total - 1)) \X (0..(total - 1))
            /\ \A rc \in DOMAIN marker_img.output_img :
                  IF InCentralSquare(rc, border, edge)
                  THEN marker_img.output_img[rc]
                         = MarkerPixel(args.id, edge, rc[1] - border,
                                       rc[2] - border)
                  ELSE marker_img.output_img[rc] = 255

\* the marker of id 42 for 10 cm at 25 dpi: 98 pixels inside a border of
\* 19 pixels, whose corner pixel is black behind the border
C15_Witness ==
    /\ MarkerGenerated
    /\ args.id = 42
    /\ marker_img.marker_size_pixels = 98
    /\ marker_img.border_size = 19
    /\ marker_img.total_size = 136
    /\ marker_img.output_img[<<19, 19>>] = 0
    /\ marker_img.output_img[<<18, 18>>] = 255

-----------------------------------------------------------------------------
(* C16: the step of the metadata pipeline *)

\* add_grid_to_image holds a step computed from a positive spacing
MetaStepCase == prog = "grid" /\ grid_spacing_px.set /\ RPos(args.spacing)

\* C16: the metadata pipeline works with a positive dpi (72 without
\* metadata), its step is the integer nearest to spacingCm / 2.54 * dpi
\* (at most 1/2 away from it), and the step is usable: it is >= 1 and the
\* layout never fails on it.
C16_MetaStepRounded ==
    MetaStepCase =>
        /\ img.dpi >= 1
        /\ 2 * Abs(args.spacing.n * 100 * img.dpi
                     - grid_spacing_px.val * 254 * args.spacing.d)
              <= 254 * args.spacing.d
        /\ grid_spacing_px.val >= 1
        /\ (pc \in {"annotate", "save"} \/ result = "success") =>
              LinesStepBy(grid_spacing_px.val)

-----------------------------------------------------------------------------
(* C17: the calibrated batch is strictly sequential *)

\* the positions that may follow each position of the loop: copy-original,
\* resolve-scale ("process", "spacing"), layout ("draw"), annotate, save;
\* every step but the copy and the annotations may also end the image
StepAfter ==
    [copy |-> {"process", "done"},
     process |-> {"spacing", "copy"},
     spacing |-> {"draw", "copy"},
     draw |-> {"annotate", "copy"},
     annotate |-> {"save"},
     save |-> {"copy"}]

FinalOutcomes == {"success", "no_marker", "error"}

\* C17: in the calibrated batch the steps of an image are taken in the
\* order copy-original, resolve-scale, layout, annotate, save; the loop
\* moves to the next image only together with the final outcome of the
\* current one; every file is written during the steps of its own image,
\* and a grid output only by the save step, after detection returned a
\* scale for that image and the step was computed from it.
C17_StrictlySequential ==
    [][(prog = "calibrated" /\ pc \in DOMAIN StepAfter) =>
          /\ pc' \in StepAfter[pc]
          /\ idx' = IF pc # "copy" /\ pc' = "copy" THEN idx + 1 ELSE idx
          /\ (idx' # idx => result' \in FinalOutcomes)
          /\ (idx' = idx /\ pc' # "done" => result' = "none")
          /\ \A f \in written' \ written :
                /\ f.i = idx
                /\ f.kind = "grid" =>
                      /\ pc = "save"
                      /\ pixels_per_cm.tag = "num"
                      /\ grid_spacing_px.set
                      /\ result' = "success"]_vars

\* the second image of a batch was saved after the first one had been
\* saved, each with its debug raster and the copy of its original
C17_Witness ==
    /\ prog = "calibrated"
    /\ pc = "copy"
    /\ idx = 3
    /\ result = "success"
    /\ Cardinality(written) = 6
    /\ Len(annot) = 2

-----------------------------------------------------------------------------
(* C18: the name of the debug raster *)

DebugFiles == { f \in written : f.kind = "debug" }

\* the path with "_debug" inserted once, before the '.' of the extension
InsertDebugOnce(path) ==
    [k \in 1..Len(path) |->
        IF k = Len(path) - 1 THEN path[k] \o "_debug" ELSE path[k]]

\* C18: with --debug and a marker detected the debug raster of an image is
\* written to the image's path with "_debug" inserted once, immediately
\* before the extension, and otherwise unchanged; without --debug, or for
\* an image without a detected marker, no debug raster is written.
C18_DebugFileName ==
    prog = "calibrated" =>
        /\ \A f \in DebugFiles :
              /\ args.debug
              /\ f.path = InsertDebugOnce(img_path(ImageFiles[f.i]))
        /\ (pc = "spacing" /\ args.debug) =>
              \E f \in DebugFiles : f.i = idx
        /\ (CurImage >= 1 /\ pixels_per_cm.tag = "None") =>
              \A f \in DebugFiles : f.i # CurImage

-----------------------------------------------------------------------------
(* C19: the input files are never written *)

\* the paths of the discovered input files
InputPaths == { img_path(ImageFiles[k]) : k \in 1..Len(ImageFiles) }

\* C19: in either batch, with or without --debug, no written file is one
\* of the discovered input files: a grid output lies in the date-stamped
\* output directory, a copy in the date-stamped originals directory, and a
\* debug raster at a path that is not an input file.
C19_InputsNeverWritten ==
    prog \in {"calibrated", "grid"} =>
        \A f \in written :
            /\ f.kind \in {"grid", "original", "debug"}
            /\ f.kind = "grid" =>
                  f.path = InDir(output_dir, output_name(ImageFiles[f.i]))
            /\ f.kind = "original" =>
                  f.path = InDir(originals_dir, ImageFiles[f.i])
            /\ f.path \notin InputPaths

====
